---------------------------- MODULE Spec2Model ----------------------------
(***************************************************************************)
(* Model of fix-drizzle-syntax.py: the five regular-expression rewrite     *)
(* rules of fix_drizzle_syntax, process_file and the driver main.          *)
(*                                                                         *)
(* A text is a sequence of lexical pieces (strings).  Every piece of more  *)
(* than one character contains none of the characters the patterns'        *)
(* character classes single out ( } , ) ] whitespace, digits ) and is      *)
(* either made of word characters only or is no word at all, and no        *)
(* literal of a pattern can lie across two pieces.  Matching piece by      *)
(* piece is then the same as matching the concatenated characters.         *)
(***************************************************************************)
EXTENDS Integers, Sequences, FiniteSets, TLC

(***************************************************************************)
(* Character classes of the patterns, lifted to pieces.                    *)
(***************************************************************************)
Tables == {"users", "posts"}
Digits == {"1", "5"}
WordPieces == Tables \cup Digits \cup {"x", "y"}

\* \s, \w, \d, [^}], [^,}], [^)], [^\]]
InClass(c, tok) ==
    CASE c = "s"   -> tok = " "
      [] c = "w"   -> tok \in WordPieces
      [] c = "d"   -> tok \in Digits
      [] c = "nb"  -> tok # "}"
      [] c = "ncb" -> tok \notin {",", "}"}
      [] c = "np"  -> tok # ")"
      [] c = "nk"  -> tok # "]"

(***************************************************************************)
(* Pattern items.  lit: one literal piece; plus/star: greedy repetition of *)
(* a class; open/close: capture group g; opt: greedy optional group (?:..)?*)
(***************************************************************************)
Lit(t)   == [k |-> "lit",   t |-> t,  c |-> "",  g |-> 0, sub |-> <<>>]
Plus(c)  == [k |-> "plus",  t |-> "", c |-> c,   g |-> 0, sub |-> <<>>]
Star(c)  == [k |-> "star",  t |-> "", c |-> c,   g |-> 0, sub |-> <<>>]
Open(g)  == [k |-> "open",  t |-> "", c |-> "",  g |-> g, sub |-> <<>>]
Close(g) == [k |-> "close", t |-> "", c |-> "",  g |-> g, sub |-> <<>>]
Opt(sub) == [k |-> "opt",   t |-> "", c |-> "",  g |-> 0, sub |-> sub]

\* db\.query\.(\w+)\.findFirst\(\{\s*where:\s*([^}]+)\s*\}\)
pattern1 ==
    << Lit("db.query."), Open(1), Plus("w"), Close(1), Lit(".findFirst("),
       Lit("{"), Star("s"), Lit("where:"), Star("s"),
       Open(2), Plus("nb"), Close(2), Star("s"), Lit("}"), Lit(")") >>

\* db\.query\.(\w+)\.findFirst\(\{\s*where:\s*(and\([^)]+\))\s*\}\)
pattern2 ==
    << Lit("db.query."), Open(1), Plus("w"), Close(1), Lit(".findFirst("),
       Lit("{"), Star("s"), Lit("where:"), Star("s"),
       Open(2), Lit("and("), Plus("np"), Lit(")"), Close(2),
       Star("s"), Lit("}"), Lit(")") >>

\* db\.query\.(\w+)\.findMany\(\{\s*where:\s*([^,}]+)
\*     (?:,\s*orderBy:[^}]*)?(?:,\s*limit:[^}]*)?\s*\}\)
pattern3 ==
    << Lit("db.query."), Open(1), Plus("w"), Close(1), Lit(".findMany("),
       Lit("{"), Star("s"), Lit("where:"), Star("s"),
       Open(2), Plus("ncb"), Close(2),
       Opt(<< Lit(","), Star("s"), Lit("orderBy:"), Star("nb") >>),
       Opt(<< Lit(","), Star("s"), Lit("limit:"), Star("nb") >>),
       Star("s"), Lit("}"), Lit(")") >>

\* db\.query\.(\w+)\.findMany\(\{\s*where:\s*([^,}]+),\s*orderBy:\s*
\*     \[([^\]]+)\](?:,\s*limit:\s*(\d+))?\s*\}\)
pattern4 ==
    << Lit("db.query."), Open(1), Plus("w"), Close(1), Lit(".findMany("),
       Lit("{"), Star("s"), Lit("where:"), Star("s"),
       Open(2), Plus("ncb"), Close(2),
       Lit(","), Star("s"), Lit("orderBy:"), Star("s"),
       Lit("["), Open(3), Plus("nk"), Close(3), Lit("]"),
       Opt(<< Lit(","), Star("s"), Lit("limit:"), Star("s"),
              Open(4), Plus("d"), Close(4) >>),
       Star("s"), Lit("}"), Lit(")") >>

\* db\.query\.(\w+)\.findMany\(\)
pattern5 ==
    << Lit("db.query."), Open(1), Plus("w"), Close(1), Lit(".findMany("),
       Lit(")") >>

(***************************************************************************)
(* The backtracking matcher of re: items are tried left to right, a greedy *)
(* repetition tries its longest run first and gives pieces back one at a   *)
(* time, an optional group is tried before it is skipped.  The first       *)
(* alternative that lets the rest of the pattern match wins.  (A result   *)
(* that is used twice is bound by r \in {..}, so that it is computed once.) *)
(***************************************************************************)
NoMatch == [ok |-> FALSE, end |-> 0, cap |-> <<>>]
NoCap == [g \in 1..4 |-> <<0, 0>>]

RECURSIVE RunLen(_, _, _)
RunLen(c, s, pos) ==
    IF pos <= Len(s) /\ InClass(c, s[pos]) THEN 1 + RunLen(c, s, pos + 1) ELSE 0

RECURSIVE Match(_, _, _, _)
RECURSIVE Greedy(_, _, _, _, _, _)

Greedy(n, min, rest, s, pos, cap) ==
    IF n < min THEN NoMatch
    ELSE CHOOSE out \in { IF r.ok THEN r
                          ELSE Greedy(n - 1, min, rest, s, pos, cap) :
                          r \in {Match(rest, s, pos + n, cap)} } : TRUE

Match(pat, s, pos, cap) ==
    IF pat = <<>> THEN [ok |-> TRUE, end |-> pos, cap |-> cap]
    ELSE LET it == Head(pat)
             rest == Tail(pat)
         IN  CASE it.k = "lit" ->
                    IF pos <= Len(s) /\ s[pos] = it.t
                    THEN Match(rest, s, pos + 1, cap) ELSE NoMatch
               [] it.k = "plus" ->
                    Greedy(RunLen(it.c, s, pos), 1, rest, s, pos, cap)
               [] it.k = "star" ->
                    Greedy(RunLen(it.c, s, pos), 0, rest, s, pos, cap)
               [] it.k = "open" ->
                    Match(rest, s, pos, [cap EXCEPT ![it.g] = <<pos, pos>>])
               [] it.k = "close" ->
                    Match(rest, s, pos, [cap EXCEPT ![it.g] = <<cap[it.g][1], pos>>])
               [] it.k = "opt" ->
                    CHOOSE out \in { IF r.ok THEN r
                                     ELSE Match(rest, s, pos, cap) :
                                     r \in {Match(it.sub \o rest, s, pos, cap)} } :
                        TRUE

\* match.group(g): the captured pieces (the empty text for a group that did
\* not take part; only group 4 can, and replacement4 tests it first).
Group(m, s, g) ==
    IF m.cap[g][1] = 0 THEN <<>>
    ELSE SubSeq(s, m.cap[g][1], m.cap[g][2] - 1)

Took(m, g) == m.cap[g][1] # 0

\* db.select().from(\1)
SelectFrom(table) == <<"db.select(", ")", ".from(">> \o table \o <<")">>

\* db.select().from(\1).where(\2).limit(1)
replacement1(m, s) ==
    SelectFrom(Group(m, s, 1)) \o <<".where(">> \o Group(m, s, 2)
        \o <<")", ".limit(", "1", ")">>

replacement2(m, s) ==
    SelectFrom(Group(m, s, 1)) \o <<".where(">> \o Group(m, s, 2)
        \o <<")", ".limit(", "1", ")">>

\* db.select().from(\1).where(\2)
replacement3(m, s) ==
    SelectFrom(Group(m, s, 1)) \o <<".where(">> \o Group(m, s, 2) \o <<")">>

\* db.select().from({table}).where({where}).orderBy({orderby})[.limit({limit})]
replacement4(m, s) ==
    LET result == SelectFrom(Group(m, s, 1)) \o <<".where(">> \o Group(m, s, 2)
                     \o <<")", ".orderBy(">> \o Group(m, s, 3) \o <<")">>
    IN  IF Took(m, 4) /\ Group(m, s, 4) # <<>>
        THEN result \o <<".limit(">> \o Group(m, s, 4) \o <<")">>
        ELSE result

\* db.select().from(\1)
replacement5(m, s) == SelectFrom(Group(m, s, 1))

Pattern(n) ==
    CASE n = 1 -> pattern1 [] n = 2 -> pattern2 [] n = 3 -> pattern3
      [] n = 4 -> pattern4 [] n = 5 -> pattern5

Replacement(n, m, s) ==
    CASE n = 1 -> replacement1(m, s) [] n = 2 -> replacement2(m, s)
      [] n = 3 -> replacement3(m, s) [] n = 4 -> replacement4(m, s)
      [] n = 5 -> replacement5(m, s)

\* re.sub(pattern, replacement, content): leftmost matches, left to right,
\* not overlapping; what no match covers is copied.
RECURSIVE SubFrom(_, _, _)
SubFrom(n, s, pos) ==
    IF pos > Len(s) THEN <<>>
    ELSE CHOOSE out \in { IF m.ok
                          THEN Replacement(n, m, s) \o SubFrom(n, s, m.end)
                          ELSE <<s[pos]>> \o SubFrom(n, s, pos + 1) :
                          m \in {Match(Pattern(n), s, pos, NoCap)} } : TRUE

Sub(n, s) == SubFrom(n, s, 1)

\* content = re.sub(pattern1, ..); ...; content = re.sub(pattern5, ..)
SubAll(n, S) == {Sub(n, c) : c \in S}

fix_drizzle_syntax(content) ==
    CHOOSE out \in SubAll(5, SubAll(4, SubAll(3, SubAll(2, SubAll(1, {content}))))) :
        TRUE

(***************************************************************************)
(* Input texts of fix_drizzle_syntax: one db.query call in the old calling *)
(* shape, whose where condition may itself hold a db.query call.           *)
(***************************************************************************)
MaxWs == 1      \* whitespace characters at each place the shape allows them
MaxNest == 1    \* levels of db.query calls inside a where condition

RECURSIVE Ws(_)
Ws(n) == IF n = 0 THEN <<>> ELSE <<" ">> \o Ws(n - 1)

\* db.query.T.findFirst({ where: C })
FindFirst(t, c, w) ==
    <<"db.query.", t, ".findFirst(", "{">> \o Ws(w) \o <<"where:">> \o Ws(w)
        \o c \o Ws(w) \o <<"}", ")">>

\* db.query.T.findMany({ where: C[, orderBy: O][, limit: N] })
FindMany(t, c, ob, lim, w) ==
    <<"db.query.", t, ".findMany(", "{">> \o Ws(w) \o <<"where:">> \o Ws(w) \o c
        \o (IF ob = <<>> THEN <<>>
            ELSE <<",">> \o Ws(w) \o <<"orderBy:">> \o Ws(w) \o ob)
        \o (IF lim = <<>> THEN <<>>
            ELSE <<",">> \o Ws(w) \o <<"limit:">> \o Ws(w) \o lim)
        \o Ws(w) \o <<"}", ")">>

\* db.query.T.findMany()
FindMany0(t) == <<"db.query.", t, ".findMany(", ")">>

\* x | eq(x) | eq(x, 1) | and(x,y)
BaseConds ==
    { <<"x">>, <<"eq(", "x", ")">>, <<"eq(", "x", ",", " ", "1", ")">>,
      <<"and(", "x", ",", "y", ")">> }

\* [desc(x)] | [{x}]
OrderBys == { <<>>, <<"[", "desc(", "x", ")", "]">>, <<"[", "{", "x", "}", "]">> }
Limits == { <<>>, <<"5">> }

InnerCalls(cs) ==
    {FindFirst("posts", c, 0) : c \in cs}
        \cup {FindMany("posts", c, <<>>, <<>>, 0) : c \in cs}
        \cup {FindMany0("posts")}

RECURSIVE Conds(_)
Conds(d) == IF d = 0 THEN BaseConds ELSE BaseConds \cup InnerCalls(Conds(d - 1))

Inputs ==
    [kind : {"findFirst"}, table : Tables, cond : Conds(MaxNest),
     orderBy : {<<>>}, limit : {<<>>}, ws : 0..MaxWs]
    \cup
    [kind : {"findMany"}, table : Tables, cond : Conds(MaxNest),
     orderBy : OrderBys, limit : Limits, ws : 0..MaxWs]
    \cup
    [kind : {"findMany0"}, table : Tables, cond : {<<>>},
     orderBy : {<<>>}, limit : {<<>>}, ws : {0}]

Render(in) ==
    CASE in.kind = "findFirst" -> FindFirst(in.table, in.cond, in.ws)
      [] in.kind = "findMany"  ->
            FindMany(in.table, in.cond, in.orderBy, in.limit, in.ws)
      [] in.kind = "findMany0" -> FindMany0(in.table)

(***************************************************************************)
(* The files of the driver: main's files_to_process, and what is on disk.  *)
(***************************************************************************)
NumFiles == 3   \* paths in files_to_process
Paths == 1..NumFiles

Absent == [exists |-> FALSE, data |-> <<>>]
File(d) == [exists |-> TRUE, data |-> d]

\* a file in the old calling shape, and one already in the target shape
SampleTexts == { FindMany0("users"), SelectFrom(<<"users">>) }
DiskFiles == {Absent} \cup {File(d) : d \in SampleTexts}

VARIABLES
    input,          \* the call the text under rewrite was written from
    text,           \* fix_drizzle_syntax: content
    rule,           \* fix_drizzle_syntax: the next re.sub to run, 6 at return
    pass,           \* 1: the first run on a text, 2: the run on its output
    first,          \* what the first run returned
    hits,           \* the rules that rewrote something in this run
    fpc,            \* "run" | "returned"
    disk,           \* path -> the file there
    disk0,          \* the disk as main found it
    i,              \* main: position of file_path in files_to_process
    pc,             \* where main / process_file stands
    content,        \* process_file: content (= original_content)
    fixed_content,  \* process_file: fixed_content
    ret,            \* process_file: the value returned
    fixed_count,    \* main: fixed_count
    stdout,         \* the lines printed
    stderr,         \* the lines printed to sys.stderr
    called,         \* paths process_file was called on
    readok,         \* paths whose content was read
    wopen,          \* paths on which open(file_path, 'w') was executed
    written,        \* paths whose write was performed and completed
    raised,         \* paths whose processing raised an exception
    returned,       \* path -> what process_file returned for it
    counted         \* paths fixed_count was incremented for

fvars == <<input, text, rule, pass, first, hits, fpc>>
mvars == <<disk, disk0, i, pc, content, fixed_content, ret, fixed_count,
           stdout, stderr, called, readok, wopen, written, raised, returned,
           counted>>
vars == <<fvars, mvars>>

NoInput ==
    [kind |-> "none", table |-> "", cond |-> <<>>, orderBy |-> <<>>,
     limit |-> <<>>, ws |-> 0]

FixIdle ==
    /\ input = NoInput
    /\ text = <<>>
    /\ rule = 1
    /\ pass = 1
    /\ first = <<>>
    /\ hits = {}
    /\ fpc = "off"

MainStart(d) ==
    /\ disk = d
    /\ disk0 = d
    /\ i = 1
    /\ content = <<>>
    /\ fixed_content = <<>>
    /\ ret = FALSE
    /\ fixed_count = 0
    /\ stdout = <<>>
    /\ stderr = <<>>
    /\ called = {}
    /\ readok = {}
    /\ wopen = {}
    /\ written = {}
    /\ raised = {}
    /\ returned = [p \in Paths |-> "none"]
    /\ counted = {}

(***************************************************************************)
(* fix_drizzle_syntax, one re.sub at a time.                               *)
(***************************************************************************)
\* the order in which the five substitutions stand in fix_drizzle_syntax
RuleOrder_4before3 == <<1, 2, 4, 3, 5>>

RuleOrder == <<1, 2, 3, 4, 5>>

FixInit ==
    /\ input \in Inputs
    /\ text = Render(input)
    /\ rule = 1
    /\ pass = 1
    /\ first = <<>>
    /\ hits = {}
    /\ fpc = "run"
    /\ pc = "off"
    /\ MainStart([p \in Paths |-> Absent])

\* content = re.sub(patternN, replacementN, content)
ApplyRule ==
    /\ fpc = "run"
    /\ rule <= 5
    /\ text' = Sub(RuleOrder[rule], text)
    /\ hits' = IF text' # text THEN hits \cup {RuleOrder[rule]} ELSE hits
    /\ rule' = rule + 1
    /\ UNCHANGED <<input, pass, first, fpc, mvars>>

\* return content
Return ==
    /\ fpc = "run"
    /\ rule = 6
    /\ fpc' = "returned"
    /\ first' = IF pass = 1 THEN text ELSE first
    /\ UNCHANGED <<input, text, rule, pass, hits, mvars>>

\* fix_drizzle_syntax is called on what it returned
Rerun ==
    /\ fpc = "returned"
    /\ pass = 1
    /\ pass' = 2
    /\ rule' = 1
    /\ hits' = {}
    /\ fpc' = "run"
    /\ UNCHANGED <<input, text, first, mvars>>

FixNext == ApplyRule \/ Return \/ Rerun

FixSpec == FixInit /\ [][FixNext]_vars

(***************************************************************************)
(* main and process_file.                                                  *)
(***************************************************************************)
Init ==
    /\ FixIdle
    /\ pc = "loop"
    /\ \E d \in [Paths -> DiskFiles] : MainStart(d)

\* for file_path in files_to_process: if full_path.exists(): process_file(..)
\* else: print("Not found")
CheckExists_call_anyway ==
    /\ pc = "loop"
    /\ i <= NumFiles
    /\ called' = called \cup {i}
    /\ pc' = "read"
    /\ UNCHANGED <<fvars, disk, disk0, i, content, fixed_content, ret,
                   fixed_count, stdout, stderr, readok, wopen, written,
                   raised, returned, counted>>

CheckExists ==
    /\ pc = "loop"
    /\ i <= NumFiles
    /\ IF disk[i].exists
       THEN /\ called' = called \cup {i}
            /\ pc' = "read"
            /\ UNCHANGED <<stdout, i>>
       ELSE /\ stdout' = Append(stdout, <<"Not found", i>>)
            /\ i' = i + 1
            /\ UNCHANGED <<called, pc>>
    /\ UNCHANGED <<fvars, disk, disk0, content, fixed_content, ret,
                   fixed_count, stderr, readok, wopen, written, raised,
                   returned, counted>>

\* with open(file_path, 'r', encoding='utf-8') as f: content = f.read()
\* A file that is not there, cannot be opened or is not UTF-8 raises.
ReadFile ==
    /\ pc = "read"
    /\ \/ /\ disk[i].exists
          /\ content' = disk[i].data
          /\ readok' = readok \cup {i}
          /\ pc' = "transform"
          /\ UNCHANGED raised
       \/ /\ raised' = raised \cup {i}
          /\ pc' = "except"
          /\ UNCHANGED <<content, readok>>
    /\ UNCHANGED <<fvars, disk, disk0, i, fixed_content, ret, fixed_count,
                   stdout, stderr, called, wopen, written, returned, counted>>

\* fixed_content = fix_drizzle_syntax(content)
\* if original_content != fixed_content: ... else: return False
Transform_always_write ==
    /\ pc = "transform"
    /\ fixed_content' = fix_drizzle_syntax(content)
    /\ pc' = "open"
    /\ UNCHANGED <<fvars, disk, disk0, i, content, ret, fixed_count, stdout,
                   stderr, called, readok, wopen, written, raised, returned,
                   counted>>

Transform ==
    /\ pc = "transform"
    /\ fixed_content' = fix_drizzle_syntax(content)
    /\ IF content # fixed_content'
       THEN pc' = "open" /\ UNCHANGED ret
       ELSE pc' = "report" /\ ret' = FALSE
    /\ UNCHANGED <<fvars, disk, disk0, i, content, fixed_count, stdout,
                   stderr, called, readok, wopen, written, raised, returned,
                   counted>>

\* with open(file_path, 'w', encoding='utf-8') as f:
\* opening truncates the file; a file that cannot be opened raises.
OpenWrite ==
    /\ pc = "open"
    /\ wopen' = wopen \cup {i}
    /\ \/ /\ disk' = [disk EXCEPT ![i] = File(<<>>)]
          /\ pc' = "write"
          /\ UNCHANGED raised
       \/ /\ raised' = raised \cup {i}
          /\ pc' = "except"
          /\ UNCHANGED disk
    /\ UNCHANGED <<fvars, disk0, i, content, fixed_content, ret, fixed_count,
                   stdout, stderr, called, readok, written, returned, counted>>

\* f.write(fixed_content); return True
\* A write that fails leaves the part that reached the disk.
WriteFile ==
    /\ pc = "write"
    /\ \/ /\ disk' = [disk EXCEPT ![i] = File(fixed_content)]
          /\ written' = written \cup {i}
          /\ ret' = TRUE
          /\ pc' = "report"
          /\ UNCHANGED raised
       \/ /\ \E k \in 0..(Len(fixed_content) - 1) :
                disk' = [disk EXCEPT ![i] = File(SubSeq(fixed_content, 1, k))]
          /\ raised' = raised \cup {i}
          /\ pc' = "except"
          /\ UNCHANGED <<written, ret>>
    /\ UNCHANGED <<fvars, disk0, i, content, fixed_content, fixed_count,
                   stdout, stderr, called, readok, wopen, returned, counted>>

\* except Exception as e: print(..., file=sys.stderr); return False
Except_propagate ==
    /\ pc = "except"
    /\ stderr' = Append(stderr, <<"Traceback", i>>)
    /\ pc' = "crashed"
    /\ UNCHANGED <<fvars, disk, disk0, i, content, fixed_content, ret,
                   fixed_count, stdout, called, readok, wopen, written,
                   raised, returned, counted>>

Except ==
    /\ pc = "except"
    /\ stderr' = Append(stderr, <<"Error processing", i>>)
    /\ ret' = FALSE
    /\ pc' = "report"
    /\ UNCHANGED <<fvars, disk, disk0, i, content, fixed_content, fixed_count,
                   stdout, called, readok, wopen, written, raised, returned,
                   counted>>

\* if process_file(full_path): print("Fixed"); fixed_count += 1
\* else: print("No changes")
Report_count_every_file ==
    /\ pc = "report"
    /\ returned' = [returned EXCEPT ![i] = IF ret THEN "True" ELSE "False"]
    /\ stdout' = Append(stdout, <<IF ret THEN "Fixed" ELSE "No changes", i>>)
    /\ fixed_count' = fixed_count + 1
    /\ counted' = counted \cup {i}
    /\ i' = i + 1
    /\ pc' = "loop"
    /\ UNCHANGED <<fvars, disk, disk0, content, fixed_content, ret, stderr,
                   called, readok, wopen, written, raised>>

Report ==
    /\ pc = "report"
    /\ returned' = [returned EXCEPT ![i] = IF ret THEN "True" ELSE "False"]
    /\ IF ret
       THEN /\ stdout' = Append(stdout, <<"Fixed", i>>)
            /\ fixed_count' = fixed_count + 1
            /\ counted' = counted \cup {i}
       ELSE /\ stdout' = Append(stdout, <<"No changes", i>>)
            /\ UNCHANGED <<fixed_count, counted>>
    /\ i' = i + 1
    /\ pc' = "loop"
    /\ UNCHANGED <<fvars, disk, disk0, content, fixed_content, ret, stderr,
                   called, readok, wopen, written, raised>>

\* print(f"Fixed {fixed_count} files")
PrintSummary ==
    /\ pc = "loop"
    /\ i = NumFiles + 1
    /\ stdout' = Append(stdout, <<"Summary", fixed_count>>)
    /\ pc' = "done"
    /\ UNCHANGED <<fvars, disk, disk0, i, content, fixed_content, ret,
                   fixed_count, stderr, called, readok, wopen, written,
                   raised, returned, counted>>

Next ==
    \/ CheckExists
    \/ ReadFile
    \/ Transform
    \/ OpenWrite
    \/ WriteFile
    \/ Except
    \/ Report
    \/ PrintSummary

Spec == Init /\ [][Next]_vars

\* main is one sequential thread: it takes its next step whenever it has one
FairSpec == Spec /\ WF_vars(Next)
(***************************************************************************)
(* Claims about main and process_file (Spec, FairSpec).                    *)
(***************************************************************************)
Pieces(s) == {s[n] : n \in 1..Len(s)}

Returned(p) == returned[p] # "none"

Differs(p) == fix_drizzle_syntax(disk0[p].data) # disk0[p].data

\* C1: a file handed to process_file is opened for writing if and only if
\* fix_drizzle_syntax of the content read differs from that content;
\* process_file returns True exactly when the write was performed and
\* completed; an unchanged text is never opened for writing and gives False.
C1_WriteIffDiffers ==
    \E D \in { {p \in readok : Differs(p)} } :
       /\ wopen \subseteq D
       /\ written \subseteq wopen
       /\ \A p \in Paths :
             Returned(p) =>
                /\ p \in wopen <=> p \in D
                /\ returned[p] = "True" <=> p \in written
                /\ p \in readok \ D => returned[p] = "False"

C1_Witness ==
    /\ pc = "done"
    /\ \E p, q \in Paths :
          /\ returned[p] = "True" /\ p \in wopen
          /\ returned[q] = "False" /\ q \in readok /\ q \notin wopen

StatusKinds == {"Fixed", "No changes", "Not found"}

\* every path has its one status line, in list order, then the summary
AllReported ==
    /\ Len(stdout) = NumFiles + 1
    /\ \A p \in Paths : stdout[p][1] \in StatusKinds /\ stdout[p][2] = p
    /\ stdout[NumFiles + 1][1] = "Summary"

\* C5: every path of the list is visited in list order and gets exactly one
\* status line, and the summary line is always reached, also when reading,
\* transforming or writing some file raises.
C5_BatchCompletes == <>(pc = "done" /\ AllReported)

C5_Witness ==
    /\ pc = "done"
    /\ AllReported
    /\ \E p \in raised : p < NumFiles /\ returned[p + 1] = "True"

\* C6: a listed path that does not exist when main reaches it is reported
\* not-found, is never passed to process_file, is not created and is not
\* counted as changed.
C6_NotFound ==
    \A p \in Paths :
       ~disk0[p].exists =>
          /\ p \notin called
          /\ ~disk[p].exists
          /\ p \notin counted
          /\ p < i => stdout[p] = <<"Not found", p>>

C6_Witness ==
    /\ pc = "done"
    /\ \E p, q \in Paths : ~disk0[p].exists /\ p < q /\ q \in counted

\* C7: an exception while reading, transforming or writing a file is caught
\* and logged to the error stream, and the result reported for the file is
\* error: not the value process_file returns for an unchanged file, and not
\* the status line of an unchanged file.
C7_ErrorDistinct ==
    \A p \in raised :
       Returned(p) =>
          /\ \E n \in 1..Len(stderr) : stderr[n] = <<"Error processing", p>>
          /\ \A q \in Paths :
                (Returned(q) /\ q \in readok /\ q \notin raised /\ q \notin wopen)
                   => /\ returned[p] # returned[q]
                      /\ stdout[p][1] # stdout[q][1]

\* C9: the total of the summary line is the number of paths process_file
\* returned True for, which are the files rewritten with a different text;
\* not-found, unchanged and failed files never count; the total is at most
\* the number of listed paths.
C9_CountIsChanged ==
    /\ fixed_count = Cardinality({p \in Paths : returned[p] = "True"})
    /\ fixed_count <= NumFiles
    /\ counted = {p \in Paths : returned[p] = "True"}
    /\ \A p \in counted :
          /\ p \in written
          /\ p \notin raised
          /\ disk0[p].exists
          /\ disk[p].data # disk0[p].data
    /\ pc = "done" => stdout[NumFiles + 1] = <<"Summary", fixed_count>>

C9_Witness ==
    /\ pc = "done"
    /\ fixed_count = 1
    /\ raised # {}
    /\ \E p \in Paths : ~disk0[p].exists

\* C10: a file whose result is not changed (process_file returned False,
\* an exception during the write included) holds on disk what it held
\* before the call.
C10_UnchangedOnDisk ==
    \A p \in Paths : returned[p] = "False" => disk[p] = disk0[p]

(***************************************************************************)
(* Claims about fix_drizzle_syntax (FixSpec).                              *)
(***************************************************************************)
FirstRunDone == pass = 1 /\ fpc = "returned"

NoQuery(s) == "db.query." \notin Pieces(s)

\* C2: fix_drizzle_syntax(fix_drizzle_syntax(t)) = fix_drizzle_syntax(t).
C2_Idempotent == (pass = 2 /\ fpc = "returned") => text = first

\* C3: db.query.X.findFirst({ where: C }) with whitespace before the closing
\* brace and no closing brace in C becomes exactly
\* db.select().from(X).where(C).limit(1).  (Stated for the conditions that
\* hold no db.query call.)
C3_FindFirstExact ==
    ( /\ FirstRunDone
      /\ input.kind = "findFirst"
      /\ input.ws >= 1
      /\ "}" \notin Pieces(input.cond)
      /\ NoQuery(input.cond) )
    => text = SelectFrom(<<input.table>>) \o <<".where(">> \o input.cond
                 \o <<")", ".limit(", "1", ")">>

\* the O of orderBy: [O]
Inside(ob) == SubSeq(ob, 2, Len(ob) - 1)

\* C4: db.query.X.findMany({ where: C, orderBy: [O][, limit: N] }) becomes
\* db.select().from(X).where(C).orderBy(O), followed by .limit(N) exactly
\* when a limit was given.  (Stated for the conditions that hold no
\* db.query call.)
C4_FindManyKeepsOrder ==
    ( /\ FirstRunDone
      /\ input.kind = "findMany"
      /\ input.orderBy # <<>>
      /\ NoQuery(input.cond) )
    => text = SelectFrom(<<input.table>>) \o <<".where(">> \o input.cond
                 \o <<")", ".orderBy(">> \o Inside(input.orderBy) \o <<")">>
                 \o (IF input.limit = <<>> THEN <<>>
                     ELSE <<".limit(">> \o input.limit \o <<")">>)

\* a findMany call of the shape rule 3 takes: no comma and no closing brace
\* in the condition, an orderBy and/or a limit clause without closing brace
Rule3Shape ==
    /\ input.kind = "findMany"
    /\ Pieces(input.cond) \cap {",", "}"} = {}
    /\ input.orderBy # <<>> \/ input.limit # <<>>
    /\ "}" \notin Pieces(input.orderBy) \cup Pieces(input.limit)

Rule3Result ==
    /\ text = SelectFrom(<<input.table>>) \o <<".where(">> \o input.cond
                 \o <<")">>
    /\ 3 \in hits
    /\ 4 \notin hits

=============================================================================
